---- MODULE Spec2Model ----
(***************************************************************************)
(* A model of the langrust completion engine: the streaming reassembler    *)
(* and event decoder of GeminiClient::stream_generate_content              *)
(* (src/src/gemini/base.rs) and the fluent ModelRequestBuilder             *)
(* (src/src/client/mod.rs).                                                *)
(*                                                                         *)
(* Bytes are modelled as tokens.  "LF" is the newline byte, "data: " the   *)
(* six bytes of the SSE data prefix, ": ping" the text of a line that is   *)
(* not a data line, "U1" and "U2" the lead and the continuation byte of a  *)
(* two-byte UTF-8 character, "FFFD" the replacement character, "junk"      *)
(* text that is no JSON.  A JSON document is a pair of tokens, its opening *)
(* and its closing half, so that a document can be cut by a chunk boundary *)
(* or spread over two data lines.  An optional value is a sequence of      *)
(* length at most one: <<>> is None, <<v>> is Some(v).                     *)
(***************************************************************************)
EXTENDS Integers, Sequences, FiniteSets, TLC

VARIABLES
    wire,       \* per call: the bytes the transport will deliver, in order
    pos,        \* per call: how many bytes of wire the engine has read
    lastChunk,  \* per call: the chunk the last successful read returned
    errs,       \* per call: number of errors the byte source has yielded
    buffer,     \* per call: the BytesMut reassembly buffer
    pc,         \* per call: "off" | "idle" | "loop" | "done"
    pending,    \* per call: events of the current inner stream::iter
    delivered,  \* per call: events handed to the consumer, in order
    decoded,    \* per call: the frames split off the buffer, in order
    builder,    \* the ModelRequestBuilder
    forwarded,  \* the ModelRequest that the builder's last terminal
                \* operation produced, with the operation's name
    model,      \* the model identifier of the backend handle
    request,    \* the ModelRequest handed to the backend handle
    request_body, \* the GeminiRequest compiled from it
    method,     \* "generateContent" | "streamGenerateContent?alt=sse"
    callpc,     \* "off" | "start" | "sent" | "done": position of the call
    sends,      \* how many times the call has sent its HTTP request
    response,   \* what the transport answered
    result,     \* what the call returned to its caller
    auths,      \* how many times the call has built its request (attached
                \* the authentication)
    called,     \* the builder fields for which a with_* call has been made
    declared,   \* a Tool under with_parameter calls: the Result of the last
    applied,    \* the argument types of the with_parameter calls, in order
    sources,    \* what the metadata server and gcloud answer to a lookup
    lookups,    \* the lookups get_access_token has run, in order
    remote_token, \* the Result of the metadata server lookup
    token       \* the Result get_access_token returned

vars == <<wire, pos, lastChunk, errs, buffer, pc, pending, delivered,
          decoded, builder, forwarded, model, request, request_body,
          method, callpc, sends, response, result, auths, called, declared,
          applied, sources, lookups, remote_token, token>>

streamVars == <<wire, pos, lastChunk, errs, buffer, pc, pending,
                delivered, decoded>>

builderVars == <<builder, forwarded, called>>

compileVars == <<model, request, request_body>>

callVars == <<method, callpc, sends, response, result, auths>>

toolVars == <<declared, applied>>

tokenVars == <<sources, lookups, remote_token, token>>

----------------------------------------------------------------------------
(* Bounds *)

MaxFrames == 2
MaxChunk == 2
MaxErrs == 1
MaxList == 2

Calls == {1, 2}

----------------------------------------------------------------------------
(* Optional values *)

None == <<>>
Some(v) == <<v>>
IsSome(o) == Len(o) = 1
Unwrap(o) == o[1]

RECURSIVE Concat(_)
Concat(ss) == IF ss = <<>> THEN <<>> ELSE Head(ss) \o Concat(Tail(ss))

----------------------------------------------------------------------------
(* The wire response: GeminiResponse and its parts *)

TextPart(t) == [text |-> t, function_call |-> None]
CallPart(n) == [text |-> <<>>, function_call |-> Some(n)]
UsageMetadata(p, c, t) ==
    [prompt_token_count |-> p, candidates_token_count |-> c, total_token_count |-> t]
GeminiResponse(cs, u) == [candidates |-> cs, usage_metadata |-> u]

FullUsage == Some(UsageMetadata(Some(3), Some(4), Some(7)))
PartialUsage == Some(UsageMetadata(Some(3), Some(4), None))

\* The documents the backend sends in this model: the JSON text of each (its
\* opening and its closing half; the two documents with a non-ASCII text
\* carry the bytes of that text between them) and the value serde reads.
DocTable ==
    <<  [json |-> <<"{1", "1}">>,
         value |-> GeminiResponse(<< <<TextPart(<<"a">>)>> >>, FullUsage)],
        [json |-> <<"{2", "2}">>,
         value |-> GeminiResponse(<< <<TextPart(<<>>)>> >>, FullUsage)],
        [json |-> <<"{3", "3}">>,
         value |-> GeminiResponse(<< <<TextPart(<<"a">>), TextPart(<<"b">>)>> >>, None)],
        [json |-> <<"{4", "4}">>,
         value |-> GeminiResponse(<< <<CallPart("get_weather")>> >>, None)],
        [json |-> <<"{5", "5}">>,
         value |-> GeminiResponse(
                     << <<TextPart(<<"a">>), CallPart("f"), CallPart("get_weather")>> >>,
                     FullUsage)],
        [json |-> <<"{6", "6}">>,
         value |-> GeminiResponse(<< <<TextPart(<<>>)>> >>, PartialUsage)],
        [json |-> <<"{7", "7}">>,
         value |-> GeminiResponse(<< >>, FullUsage)],
        [json |-> <<"{8", "8}">>,
         value |-> GeminiResponse(<< <<TextPart(<<>>)>>, <<TextPart(<<"b">>)>> >>, None)],
        [json |-> <<"{9", "U1", "U2", "9}">>,
         value |-> GeminiResponse(<< <<TextPart(<<"U1", "U2">>)>> >>, None)],
        [json |-> <<"{9", "FFFD", "FFFD", "9}">>,
         value |-> GeminiResponse(<< <<TextPart(<<"FFFD", "FFFD">>)>> >>, None)],
        [json |-> <<"{11", "11}">>,
         value |-> GeminiResponse(<< >>, None)],
        [json |-> <<"{12", "12}">>,
         value |-> GeminiResponse(<< >>, PartialUsage)],
        [json |-> <<"{13", "13}">>,
         value |-> GeminiResponse(<< <<TextPart(<<"a">>)>> >>,
                                  Some(UsageMetadata(None, Some(4), Some(7))))],
        [json |-> <<"{14", "14}">>,
         value |-> GeminiResponse(<< <<TextPart(<<"a">>)>> >>,
                                  Some(UsageMetadata(Some(3), None, Some(7))))],
        [json |-> <<"{15", "15}">>,
         value |-> GeminiResponse(
                     << <<TextPart(<<"a">>), TextPart(<<"b">>)>>, <<TextPart(<<"c">>)>> >>,
                     FullUsage)],
        [json |-> <<"{16", "16}">>,
         value |-> GeminiResponse(
                     << <<CallPart("get_weather"), TextPart(<<"a">>)>> >>, FullUsage)],
        [json |-> <<"{17", "17}">>,
         value |-> GeminiResponse(<< <<TextPart(<<"a">>)>> >>,
                                  Some(UsageMetadata(Some(3), None, None)))]  >>

DocIds == 1..Len(DocTable)
Json(d) == DocTable[d].json

\* serde_json::from_str::<GeminiResponse>(&data): Ok when the text is exactly
\* one document, Err otherwise (truncated, trailing characters, no JSON).
FromStr(data) ==
    IF \E d \in DocIds : Json(d) = data
    THEN [ok |-> TRUE, value |-> DocTable[CHOOSE d \in DocIds : Json(d) = data].value]
    ELSE [ok |-> FALSE, value |-> GeminiResponse(<<>>, None)]

----------------------------------------------------------------------------
(* GeminiResponse accessors *)

RECURSIVE PushAll(_)
PushAll(parts) ==
    IF parts = <<>> THEN <<>> ELSE Head(parts).text \o PushAll(Tail(parts))

\* A get_text that joins the parts of all the candidates.
get_text_all(r) ==
    IF r.candidates = <<>> THEN None ELSE Some(PushAll(Concat(r.candidates)))

\* A get_text that answers an empty candidate list with the empty text.
get_text_default(r) ==
    IF r.candidates = <<>> THEN Some(<<>>) ELSE Some(PushAll(r.candidates[1]))

\* GeminiResponse::get_text
get_text(r) ==
    IF r.candidates = <<>> THEN None ELSE Some(PushAll(r.candidates[1]))

RECURSIVE LastCall(_)
LastCall(parts) ==
    IF parts = <<>> THEN None
    ELSE IF IsSome(parts[Len(parts)].function_call)
         THEN parts[Len(parts)].function_call
         ELSE LastCall(SubSeq(parts, 1, Len(parts) - 1))

\* GeminiResponse::get_function: the last part of the first candidate that
\* carries a function call.
get_function(r) ==
    IF r.candidates = <<>> THEN None ELSE LastCall(r.candidates[1])

\* The token counts of the usage block, None without a usage block.
get_prompt_tokens(r) ==
    IF r.usage_metadata = None THEN None
    ELSE Unwrap(r.usage_metadata).prompt_token_count

get_completion_tokens(r) ==
    IF r.usage_metadata = None THEN None
    ELSE Unwrap(r.usage_metadata).candidates_token_count

get_total_tokens(r) ==
    IF r.usage_metadata = None THEN None
    ELSE Unwrap(r.usage_metadata).total_token_count

----------------------------------------------------------------------------
(* Frame extraction *)

\* String::from_utf8_lossy: a lead byte followed by its continuation byte is
\* a character; a lead byte or a continuation byte on its own is replaced.
RECURSIVE from_utf8_lossy(_)
from_utf8_lossy(b) ==
    IF b = <<>> THEN <<>>
    ELSE IF b[1] = "U1" /\ Len(b) >= 2 /\ b[2] = "U2"
         THEN <<"U1", "U2">> \o from_utf8_lossy(SubSeq(b, 3, Len(b)))
    ELSE IF b[1] \in {"U1", "U2"}
         THEN <<"FFFD">> \o from_utf8_lossy(Tail(b))
    ELSE <<b[1]>> \o from_utf8_lossy(Tail(b))

\* A find that stops at the first newline.
FindSingle(s) ==
    IF \E i \in 1..Len(s) : s[i] = "LF"
    THEN CHOOSE i \in 1..Len(s) : s[i] = "LF" /\ \A j \in 1..(i - 1) : s[j] # "LF"
    ELSE 0

\* buf_str.find("\n\n"): the index of the first double newline, 0 for None.
Find(s) ==
    IF \E i \in 1..(Len(s) - 1) : s[i] = "LF" /\ s[i + 1] = "LF"
    THEN CHOOSE i \in 1..(Len(s) - 1) :
            /\ s[i] = "LF" /\ s[i + 1] = "LF"
            /\ \A j \in 1..(i - 1) : ~(s[j] = "LF" /\ s[j + 1] = "LF")
    ELSE 0

event_text(s) == SubSeq(s, 1, Find(s) - 1)
remaining(s) == SubSeq(s, Find(s) + 2, Len(s))

\* str::lines: the text between newlines; a final empty line is not a line.
RECURSIVE lines(_)
lines(s) ==
    IF s = <<>> THEN <<>>
    ELSE IF \E i \in 1..Len(s) : s[i] = "LF"
         THEN LET i == CHOOSE k \in 1..Len(s) :
                          s[k] = "LF" /\ \A j \in 1..(k - 1) : s[j] # "LF"
              IN  <<SubSeq(s, 1, i - 1)>> \o lines(SubSeq(s, i + 1, Len(s)))
         ELSE <<s>>

\* line.strip_prefix("data: ")
strip_prefix(line) ==
    IF line # <<>> /\ line[1] = "data: " THEN Some(Tail(line)) ELSE None

\* filter_map(strip_prefix) ... join("")
RECURSIVE FilterJoin(_)
FilterJoin(ls) ==
    IF ls = <<>> THEN <<>>
    ELSE (IF IsSome(strip_prefix(Head(ls))) THEN Unwrap(strip_prefix(Head(ls))) ELSE <<>>)
         \o FilterJoin(Tail(ls))

\* A payload made of the first data line alone.
data_first_line(text) ==
    IF \E i \in 1..Len(lines(text)) : IsSome(strip_prefix(lines(text)[i]))
    THEN Unwrap(strip_prefix(lines(text)[CHOOSE i \in 1..Len(lines(text)) :
            /\ IsSome(strip_prefix(lines(text)[i]))
            /\ \A j \in 1..(i - 1) : ~IsSome(strip_prefix(lines(text)[j]))]))
    ELSE <<>>

\* event_text.lines().filter_map(strip_prefix("data: ")).collect().join("")
data(text) == FilterJoin(lines(text))

----------------------------------------------------------------------------
(* Events *)

Delta(t, k) == [kind |-> "Delta", text |-> t, name |-> "", usage |-> <<>>, frame |-> k]
FunctionCall(n, k) ==
    [kind |-> "FunctionCall", text |-> <<>>, name |-> n, usage |-> <<>>, frame |-> k]
Usage(p, c, t, k) ==
    [kind |-> "Usage", text |-> <<>>, name |-> "", usage |-> <<p, c, t>>, frame |-> k]
Error(what, k) ==
    [kind |-> "Error", text |-> <<>>, name |-> what, usage |-> <<>>, frame |-> k]

\* A Delta pushed without the is_empty test.
DeltaEventsUnchecked(r, k) ==
    IF IsSome(get_text(r)) THEN <<Delta(Unwrap(get_text(r)), k)>> ELSE <<>>

DeltaEvents(r, k) ==
    IF IsSome(get_text(r)) /\ Unwrap(get_text(r)) # <<>>
    THEN <<Delta(Unwrap(get_text(r)), k)>> ELSE <<>>

FunctionEvents(r, k) ==
    IF IsSome(get_function(r)) THEN <<FunctionCall(Unwrap(get_function(r)), k)>> ELSE <<>>

UsageEvents(r, k) ==
    IF IsSome(r.usage_metadata)
    THEN LET u == Unwrap(r.usage_metadata)
         IN  IF /\ IsSome(u.prompt_token_count)
                /\ IsSome(u.candidates_token_count)
                /\ IsSome(u.total_token_count)
             THEN <<Usage(Unwrap(u.prompt_token_count),
                          Unwrap(u.candidates_token_count),
                          Unwrap(u.total_token_count), k)>>
             ELSE <<>>
    ELSE <<>>

\* The usage pushed first.
EventsUsageFirst(r, k) == UsageEvents(r, k) \o DeltaEvents(r, k) \o FunctionEvents(r, k)

\* The events vector of a parsed frame, in push order.
Events(r, k) == DeltaEvents(r, k) \o FunctionEvents(r, k) \o UsageEvents(r, k)

----------------------------------------------------------------------------
(* The byte streams of the transport *)

LFLF == <<"LF", "LF">>

DataFrame(d) == <<"data: ">> \o Json(d) \o LFLF

\* A frame whose document is spread over two data lines.
TwoLineFrame(d) ==
    <<"data: ", Head(Json(d)), "LF", "data: ">> \o Tail(Json(d)) \o LFLF

CommentFrame == <<": ping">> \o LFLF
EventLineFrame == <<": ping", "LF", "data: ">> \o Json(1) \o LFLF
JunkFrame == <<"data: ", "junk">> \o LFLF
TruncatedFrame == <<"data: ", "{1">> \o LFLF
BareJsonFrame == <<"{1", "1}">> \o LFLF
KeepAlive == <<"LF">>

\* A frame of one line that holds "data: " after its first character.
InlineDataFrame == <<": ping", "data: ">> \o Json(1) \o LFLF

AllUnits ==
    {DataFrame(d) : d \in DocIds \ {10}}
    \cup {TwoLineFrame(3), CommentFrame, EventLineFrame, JunkFrame,
          TruncatedFrame, BareJsonFrame, InlineDataFrame}

CoreUnits == {DataFrame(5), DataFrame(9), JunkFrame, CommentFrame, KeepAlive}

\* What may follow the last complete frame when the input ends.
Tails == {<<>>, <<"data: ">> \o Json(1) \o <<"LF">>}

UnitSeqs ==
    {<<u>> : u \in AllUnits} \cup UNION {[1..n -> CoreUnits] : n \in 0..MaxFrames}

Wires == {Concat(us) \o t : us \in UnitSeqs, t \in Tails}

\* The bytes call c has read so far.
received(c) == SubSeq(wire[c], 1, pos[c])

----------------------------------------------------------------------------
(* The event stream of one streaming call: stream::unfold(...).flat_map *)

buf_str(c) == from_utf8_lossy(buffer[c])

\* return Some((stream::iter(events), state)): flat_map polls the new inner
\* stream at once, so its first event answers the pending request.
Yield(c, events) ==
    /\ delivered' = [delivered EXCEPT ![c] = Append(@, Head(events))]
    /\ pending' = [pending EXCEPT ![c] = Tail(events)]
    /\ pc' = [pc EXCEPT ![c] = "idle"]

\* An inner stream that hands out its last event first.
next_inner_lifo(c) ==
    /\ pc[c] = "idle"
    /\ pending[c] # <<>>
    /\ delivered' = [delivered EXCEPT ![c] = Append(@, pending[c][Len(pending[c])])]
    /\ pending' = [pending EXCEPT ![c] = SubSeq(@, 1, Len(@) - 1)]
    /\ UNCHANGED <<wire, pos, lastChunk, errs, buffer, pc, decoded>>
    /\ UNCHANGED <<builderVars, compileVars, callVars, toolVars, tokenVars>>

\* The consumer asks for the next event while the inner stream::iter still
\* holds events: flat_map hands out the next one.
next_inner(c) ==
    /\ pc[c] = "idle"
    /\ pending[c] # <<>>
    /\ delivered' = [delivered EXCEPT ![c] = Append(@, Head(pending[c]))]
    /\ pending' = [pending EXCEPT ![c] = Tail(@)]
    /\ UNCHANGED <<wire, pos, lastChunk, errs, buffer, pc, decoded>>
    /\ UNCHANGED <<builderVars, compileVars, callVars, toolVars, tokenVars>>

\* The consumer asks for the next event and the inner stream is exhausted:
\* flat_map polls the unfold closure.
next_outer(c) ==
    /\ pc[c] = "idle"
    /\ pending[c] = <<>>
    /\ pc' = [pc EXCEPT ![c] = "loop"]
    /\ UNCHANGED <<wire, pos, lastChunk, errs, buffer, pending, delivered, decoded>>
    /\ UNCHANGED <<builderVars, compileVars, callVars, toolVars, tokenVars>>

\* A closure that goes on to the next frame when a payload does not parse.
Outcome_swallow(payload, k) ==
    IF payload = <<>> THEN <<>>
    ELSE IF FromStr(payload).ok THEN Events(FromStr(payload).value, k)
    ELSE <<>>

\* A closure that hands the empty payload to the parser like any other.
Outcome_no_skip(payload, k) ==
    IF FromStr(payload).ok THEN Events(FromStr(payload).value, k)
    ELSE <<Error("parse", k)>>

\* What the closure does with the payload of frame number k.
Outcome(payload, k) ==
    IF payload = <<>> THEN <<>>
    ELSE IF FromStr(payload).ok THEN Events(FromStr(payload).value, k)
    ELSE <<Error("parse", k)>>

\* One turn of the loop with a delimiter in the buffer: split the frame off,
\* decode it, and return its events or continue.  buf, text, payload and
\* events are the locals buf_str, event_text, data and events of the closure.
extract_event(c) ==
    /\ pc[c] = "loop"
    /\ Find(buf_str(c)) # 0
    /\ \E buf \in {buf_str(c)} :
       \E text \in {event_text(buf)} :
       \E payload \in {data(text)} :
       \E events \in {Outcome(payload, Len(decoded[c]) + 1)} :
          /\ buffer' = [buffer EXCEPT ![c] = remaining(buf)]
          /\ decoded' = [decoded EXCEPT ![c] = Append(@, text)]
          /\ IF events # <<>>
             THEN Yield(c, events)
             ELSE UNCHANGED <<pc, pending, delivered>>
    /\ UNCHANGED <<wire, pos, lastChunk, errs>>
    /\ UNCHANGED <<builderVars, compileVars, callVars, toolVars, tokenVars>>

\* A closure that reads ahead whether or not a request is pending.
NeedMoreDataEager(c) == pc[c] \in {"idle", "loop"} /\ Find(buf_str(c)) = 0

\* A closure that reads whatever the buffer holds.
NeedMoreDataAlways(c) == pc[c] = "loop"

\* The closure reaches byte_stream.try_next().
NeedMoreData(c) == pc[c] = "loop" /\ Find(buf_str(c)) = 0

\* The sizes the next chunk can have: up to MaxChunk bytes, or the bytes up
\* to the end of a frame the transport holds, or the bytes up to the first
\* byte of a two-byte character, or all the bytes it has left.
ChunkSizes(c) ==
    {n \in 1..(Len(wire[c]) - pos[c]) :
        \/ n <= MaxChunk
        \/ wire[c][pos[c] + n - 1] = "LF" /\ wire[c][pos[c] + n] = "LF"
        \/ wire[c][pos[c] + n] = "U1"
        \/ pos[c] + n = Len(wire[c])}

\* A read into one buffer that all the calls of the handle share.
read_chunk_shared(c) ==
    /\ NeedMoreData(c)
    /\ \E n \in ChunkSizes(c) :
          /\ LET chunk == SubSeq(wire[c], pos[c] + 1, pos[c] + n)
             IN  /\ buffer' = [d \in Calls |-> buffer[d] \o chunk]
                 /\ lastChunk' = [lastChunk EXCEPT ![c] = chunk]
          /\ pos' = [pos EXCEPT ![c] = @ + n]
    /\ UNCHANGED <<wire, errs, pc, pending, delivered, decoded>>
    /\ UNCHANGED <<builderVars, compileVars, callVars, toolVars, tokenVars>>

\* try_next() returns Ok(Some(chunk)).
read_chunk(c) ==
    /\ NeedMoreData(c)
    /\ \E n \in ChunkSizes(c) :
          /\ LET chunk == SubSeq(wire[c], pos[c] + 1, pos[c] + n)
             IN  /\ buffer' = [buffer EXCEPT ![c] = @ \o chunk]
                 /\ lastChunk' = [lastChunk EXCEPT ![c] = chunk]
          /\ pos' = [pos EXCEPT ![c] = @ + n]
    /\ UNCHANGED <<wire, errs, pc, pending, delivered, decoded>>
    /\ UNCHANGED <<builderVars, compileVars, callVars, toolVars, tokenVars>>

\* An end of input that decodes what is left in the buffer as a last frame.
read_end_flush(c) ==
    /\ NeedMoreData(c)
    /\ pos[c] = Len(wire[c]) \/ errs[c] > 0
    /\ LET events == Outcome(data(buf_str(c)), Len(decoded[c]) + 1)
       IN  IF events # <<>>
           THEN /\ buffer' = [buffer EXCEPT ![c] = <<>>]
                /\ decoded' = [decoded EXCEPT ![c] = Append(@, buf_str(c))]
                /\ Yield(c, events)
           ELSE /\ pc' = [pc EXCEPT ![c] = "done"]
                /\ UNCHANGED <<buffer, pending, delivered, decoded>>
    /\ UNCHANGED <<wire, pos, lastChunk, errs>>
    /\ UNCHANGED <<builderVars, compileVars, callVars, toolVars, tokenVars>>

\* An end of input that ends the stream only once the buffer is empty.
read_end_wait(c) ==
    /\ NeedMoreData(c)
    /\ pos[c] = Len(wire[c]) \/ errs[c] > 0
    /\ buffer[c] = <<>>
    /\ pc' = [pc EXCEPT ![c] = "done"]
    /\ UNCHANGED <<wire, pos, lastChunk, errs, buffer, pending, delivered, decoded>>
    /\ UNCHANGED <<builderVars, compileVars, callVars, toolVars, tokenVars>>

\* try_next() returns Ok(None): the closure returns None and the stream ends.
read_end(c) ==
    /\ NeedMoreData(c)
    /\ pos[c] = Len(wire[c]) \/ errs[c] > 0
    /\ pc' = [pc EXCEPT ![c] = "done"]
    /\ UNCHANGED <<wire, pos, lastChunk, errs, buffer, pending, delivered, decoded>>
    /\ UNCHANGED <<builderVars, compileVars, callVars, toolVars, tokenVars>>

\* try_next() returns Err(e): the closure returns the error as an event and
\* keeps its state.
read_error(c) ==
    /\ NeedMoreData(c)
    /\ errs[c] < MaxErrs
    /\ errs' = [errs EXCEPT ![c] = @ + 1]
    /\ Yield(c, <<Error("transport", 0)>>)
    /\ UNCHANGED <<wire, pos, lastChunk, buffer, decoded>>
    /\ UNCHANGED <<builderVars, compileVars, callVars, toolVars, tokenVars>>

\* A drop that lets go of the events and keeps the buffer allocated.
drop_stream_keep(c) ==
    /\ pc[c] = "idle" \/ NeedMoreData(c)
    /\ pc' = [pc EXCEPT ![c] = "dropped"]
    /\ pending' = [pending EXCEPT ![c] = <<>>]
    /\ UNCHANGED <<wire, pos, lastChunk, errs, buffer, delivered, decoded>>
    /\ UNCHANGED <<builderVars, compileVars, callVars, toolVars, tokenVars>>

\* The consumer drops the boxed event stream, between two requests or while
\* a request waits at try_next: the unfold state (byte_stream, buffer) and
\* the inner stream::iter are owned by it and are dropped with it.
drop_stream(c) ==
    /\ pc[c] = "idle" \/ NeedMoreData(c)
    /\ pc' = [pc EXCEPT ![c] = "dropped"]
    /\ buffer' = [buffer EXCEPT ![c] = <<>>]
    /\ pending' = [pending EXCEPT ![c] = <<>>]
    /\ UNCHANGED <<wire, pos, lastChunk, errs, delivered, decoded>>
    /\ UNCHANGED <<builderVars, compileVars, callVars, toolVars, tokenVars>>

StreamStep(c) ==
    \/ next_inner(c)
    \/ next_outer(c)
    \/ extract_event(c)
    \/ read_chunk(c)
    \/ read_end(c)
    \/ read_error(c)

----------------------------------------------------------------------------
(* The request builder: ModelRequestBuilder *)

Message(content, role) == [content |-> content, role |-> role]
Tool(name) == [name |-> name, description |-> "", parameters |-> None]
Settings(max_tokens, temperature) ==
    [max_tokens |-> max_tokens, timeout |-> None, temperature |-> temperature,
     thinking_budget |-> None]

Messages == {Message("hello", Some("user")), Message("fine", Some("model"))}
Tools == {Tool("get_weather"), Tool("search")}
Systems == {"you are helpful", "be brief"}
SettingsValues == {Settings(Some(100), Some(0)), Settings(None, None)}

\* The vectors of at most MaxList elements of S.
Vecs(S) == UNION {[1..n -> S] : n \in 0..MaxList}

\* A new that starts with empty lists.
new_empty_lists ==
    [model |-> "handle", system |-> None, messages |-> Some(<<>>),
     settings |-> None, tools |-> Some(<<>>)]

\* ModelRequestBuilder::new: the builder bound to the backend handle it was
\* created from.
new ==
    [model |-> "handle", system |-> None, messages |-> None, settings |-> None,
     tools |-> None]

\* A with_system that keeps a system text already set.
with_system_once(b, system) ==
    IF b.system = None THEN [b EXCEPT !.system = Some(system)] ELSE b

with_system(b, system) == [b EXCEPT !.system = Some(system)]

with_message(b, message) ==
    IF b.messages = None
    THEN [b EXCEPT !.messages = Some(<<message>>)]
    ELSE [b EXCEPT !.messages = Some(Append(Unwrap(@), message))]

\* A with_messages that replaces the list instead of extending it.
with_messages_replace(b, messages) == [b EXCEPT !.messages = Some(messages)]

with_messages(b, messages) ==
    IF b.messages = None
    THEN [b EXCEPT !.messages = Some(messages)]
    ELSE [b EXCEPT !.messages = Some(Unwrap(@) \o messages)]

\* A with_settings that starts the request over.
with_settings_reset(b, settings) ==
    [b EXCEPT !.settings = Some(settings), !.messages = None]

with_settings(b, settings) == [b EXCEPT !.settings = Some(settings)]

\* With a tool list present the tool is pushed onto a clone of the list and
\* the clone is dropped.
with_tool(b, tool) ==
    IF b.tools = None THEN [b EXCEPT !.tools = Some(<<tool>>)] ELSE b

\* With a tool list present the clone is extended and dropped.
with_tools(b, tools) ==
    IF b.tools = None THEN [b EXCEPT !.tools = Some(tools)] ELSE b

ListLen(o) == IF o = None THEN 0 ELSE Len(Unwrap(o))

WithSystem ==
    /\ \E system \in Systems : builder' = with_system(builder, system)
    /\ called' = called \cup {"system"}
    /\ UNCHANGED <<streamVars, forwarded, compileVars, callVars, toolVars, tokenVars>>

WithMessage ==
    /\ ListLen(builder.messages) < MaxList
    /\ \E message \in Messages : builder' = with_message(builder, message)
    /\ called' = called \cup {"messages"}
    /\ UNCHANGED <<streamVars, forwarded, compileVars, callVars, toolVars, tokenVars>>

WithMessages ==
    /\ \E messages \in Vecs(Messages) :
          /\ ListLen(builder.messages) + Len(messages) <= MaxList
          /\ builder' = with_messages(builder, messages)
    /\ called' = called \cup {"messages"}
    /\ UNCHANGED <<streamVars, forwarded, compileVars, callVars, toolVars, tokenVars>>

WithSettings ==
    /\ \E settings \in SettingsValues : builder' = with_settings(builder, settings)
    /\ called' = called \cup {"settings"}
    /\ UNCHANGED <<streamVars, forwarded, compileVars, callVars, toolVars, tokenVars>>

WithTool ==
    /\ \E tool \in Tools : builder' = with_tool(builder, tool)
    /\ called' = called \cup {"tools"}
    /\ UNCHANGED <<streamVars, forwarded, compileVars, callVars, toolVars, tokenVars>>

WithTools ==
    /\ \E tools \in Vecs(Tools) : builder' = with_tools(builder, tools)
    /\ called' = called \cup {"tools"}
    /\ UNCHANGED <<streamVars, forwarded, compileVars, callVars, toolVars, tokenVars>>

\* A to_model_request that forgets the tool list.
to_model_request_no_tools(b) ==
    [system |-> b.system, messages |-> b.messages, settings |-> b.settings,
     tools |-> None]

\* The request holds clones of the four fields.
to_model_request(b) ==
    [system |-> b.system, messages |-> b.messages, settings |-> b.settings,
     tools |-> b.tools]

TerminalOps == {"to_model_request", "completion", "stream"}

\* A terminal operation takes &self: it hands the request to its caller
\* (to_model_request) or to the model handle (completion, stream).
Terminal(op) ==
    /\ forwarded' = Some([op |-> op, request |-> to_model_request(builder)])
    /\ UNCHANGED <<streamVars, builder, called, compileVars, callVars, toolVars, tokenVars>>

ToModelRequest == Terminal("to_model_request")

Completion == Terminal("completion")

Stream == Terminal("stream")

----------------------------------------------------------------------------
(* The request compiler: GeminiClient::create_request_body *)

\* A model identifier is the sequence of its pieces of text.
Models ==
    {<<"gemini-", "1", ".", "5", "-pro">>,
     <<"gemini-", "2", ".", "0", "-flash">>,
     <<"gemini-", "2", ".", "5", "-flash">>,
     <<"gemini-", "3", "-pro">>,
     <<"gemini-", "1", "2", ".", "0">>,
     <<"gemini-", "1", "-", "5">>}

\* str::contains
contains(s, pat) ==
    \E i \in 1..(Len(s) - Len(pat) + 1) : SubSeq(s, i, i + Len(pat) - 1) = pat

\* An unwrap that takes 1 for the absent value.
unwrap_or_one(o) == IF o = None THEN 1 ELSE Unwrap(o)

\* Option::unwrap_or_default on an Option<i16>
unwrap_or_default(o) == IF o = None THEN 0 ELSE Unwrap(o)

\* A test that looks for "1.5" only.
supports_thinking_15(m) == ~contains(m, <<"1", ".", "5">>)

\* The condition under which a ThinkingConfig is built.
supports_thinking(m) ==
    ~contains(m, <<"1", ".", "5">>) /\ ~contains(m, <<"2", ".", "0">>)

ThinkingConfig(budget) == [thinking_budget |-> budget]

GenerationConfig(max_output_tokens, temperature, thinking_config) ==
    [max_output_tokens |-> max_output_tokens, temperature |-> temperature,
     thinking_config |-> thinking_config]

Part(text) == [text |-> text]

Content(parts, role) == [parts |-> parts, role |-> role]

SystemInstructionContent(parts) == [parts |-> parts]

GeminiTool(t) ==
    [name |-> t.name, description |-> t.description, parameters |-> t.parameters]

\* A declaration block that lists the declarations last to first.
GeminiTools_reversed(decls) ==
    [function_declarations |-> [i \in 1..Len(decls) |-> decls[Len(decls) + 1 - i]]]

GeminiTools(decls) == [function_declarations |-> decls]

GeminiRequest(system_instruction, contents, generation_config, tools) ==
    [system_instruction |-> system_instruction, contents |-> contents,
     generation_config |-> generation_config, tools |-> tools]

\* A role resolution that takes a message without a role for the model's.
resolve_role_model(message) ==
    IF message.role = None THEN "model" ELSE Unwrap(message.role)

\* message.role.clone().unwrap_or_else(|| Role::User)
resolve_role(message) ==
    IF message.role = None THEN "user" ELSE Unwrap(message.role)

\* A field of the wire request is an Option: None is a field the JSON
\* document leaves out (or carries as null), Some(v) a field with value v.
create_request_body(m, req) ==
    LET thinking_config ==
            IF supports_thinking(m)
            THEN Some(ThinkingConfig(
                     Some(IF req.settings = None THEN 0
                          ELSE unwrap_or_default(
                                   Unwrap(req.settings).thinking_budget))))
            ELSE None
        generation_config ==
            GenerationConfig(
                IF req.settings = None THEN None
                ELSE Unwrap(req.settings).max_tokens,
                Some(IF req.settings = None THEN 0
                     ELSE unwrap_or_default(Unwrap(req.settings).temperature)),
                thinking_config)
        messages == IF req.messages = None THEN <<>> ELSE Unwrap(req.messages)
        contents ==
            [i \in 1..Len(messages) |->
                Content(<<Part(messages[i].content)>>, resolve_role(messages[i]))]
        system_instruction ==
            IF req.system = None THEN None
            ELSE Some(SystemInstructionContent(<<Part(Unwrap(req.system))>>))
        tools ==
            IF req.tools = None THEN None
            ELSE Some(<<GeminiTools([i \in 1..Len(Unwrap(req.tools)) |->
                                        GeminiTool(Unwrap(req.tools)[i])])>>)
    IN  GeminiRequest(system_instruction, contents, generation_config, tools)

\* The generic requests the compiler is run on.
CompileSettings ==
    {None,
     Some(Settings(None, None)),
     Some(Settings(Some(100), Some(0))),
     Some([Settings(None, Some(7)) EXCEPT !.thinking_budget = Some(5)]),
     Some([Settings(Some(100), None) EXCEPT !.thinking_budget = Some(0)])}

CompileMessages ==
    {None,
     Some(<<>>),
     Some(<<Message("hi", Some("user"))>>),
     Some(<<Message("hi", None), Message("fine", Some("model"))>>)}

CompileTools ==
    {None, Some(<<>>), Some(<<Tool("get_weather")>>),
     Some(<<Tool("search"), Tool("get_weather")>>)}

Requests ==
    [system : {None, Some("you are helpful")}, messages : CompileMessages,
     settings : CompileSettings, tools : CompileTools]

Compile ==
    /\ request # None
    /\ request_body = None
    /\ request_body' = Some(create_request_body(model, Unwrap(request)))
    /\ UNCHANGED <<streamVars, builderVars, model, request, callVars, toolVars, tokenVars>>

----------------------------------------------------------------------------
(* One call on the backend handle: generate_content and                   *)
(* stream_generate_content up to the point where the event stream starts  *)

Methods == {"generateContent", "streamGenerateContent?alt=sse"}

\* What the transport answers: build_request fails (no token), send fails,
\* or a response arrives with a status and a body; reading the body may
\* fail.
Response(kind, status, body, readable) ==
    [kind |-> kind, status |-> status, body |-> body, readable |-> readable]

Statuses == {200, 299, 300, 404}

Bodies ==
    {Json(d) : d \in {1, 3, 5, 6, 7, 11, 12, 13, 14, 15, 16, 17}}
        \cup {<<"junk">>, DataFrame(1), DataFrame(3) \o JunkFrame}

Responses ==
    {Response("auth_error", 0, <<>>, FALSE), Response("send_error", 0, <<>>, FALSE)}
        \cup {Response("http", st, b, rd) :
                  st \in Statuses, b \in Bodies, rd \in BOOLEAN}

\* A status test that takes every status below 400 for a success.
is_success_lenient(status) == status < 400

\* StatusCode::is_success
is_success(status) == status \in 200..299

\* Result<_, Box<dyn Error>>: the value or the error, as Options.
Ok(v) == [value |-> Some(v), error |-> None]

Err(kind, status, text) ==
    [value |-> None, error |-> Some([kind |-> kind, status |-> status, text |-> text])]

NormalizedCompletion(completion, prompt_tokens, completion_tokens, total_tokens, function) ==
    [completion |-> completion, prompt_tokens |-> prompt_tokens,
     completion_tokens |-> completion_tokens, total_tokens |-> total_tokens,
     function |-> function]

\* The error of a response whose status is no success: the body is read for
\* the message, and a failure to read it is returned in its place.
status_error(resp) ==
    IF resp.readable
    THEN Err("status", Some(resp.status), Some(resp.body))
    ELSE Err("body_read", None, None)

\* A decode that takes a missing total count for zero.
decode_completion_defaulting(resp) ==
    LET parsed == FromStr(resp.body)
        r == parsed.value
    IN  IF ~resp.readable \/ ~parsed.ok THEN Err("json", None, None)
        ELSE IF get_text(r) = None THEN Err("missing_completion", None, None)
        ELSE IF get_prompt_tokens(r) = None
             THEN Err("missing_prompt_tokens", None, None)
        ELSE IF get_completion_tokens(r) = None
             THEN Err("missing_completion_tokens", None, None)
        ELSE Ok(NormalizedCompletion(Unwrap(get_text(r)),
                                     Unwrap(get_prompt_tokens(r)),
                                     Unwrap(get_completion_tokens(r)),
                                     unwrap_or_default(get_total_tokens(r)),
                                     get_function(r)))

\* A decode that asks for the total count first.
decode_completion_total_first(resp) ==
    LET parsed == FromStr(resp.body)
        r == parsed.value
    IN  IF ~resp.readable \/ ~parsed.ok THEN Err("json", None, None)
        ELSE IF get_total_tokens(r) = None
             THEN Err("missing_total_tokens", None, None)
        ELSE IF get_text(r) = None THEN Err("missing_completion", None, None)
        ELSE IF get_prompt_tokens(r) = None
             THEN Err("missing_prompt_tokens", None, None)
        ELSE IF get_completion_tokens(r) = None
             THEN Err("missing_completion_tokens", None, None)
        ELSE Ok(NormalizedCompletion(Unwrap(get_text(r)),
                                     Unwrap(get_prompt_tokens(r)),
                                     Unwrap(get_completion_tokens(r)),
                                     Unwrap(get_total_tokens(r)),
                                     get_function(r)))

\* A decode that leaves the function call out of the completion.
decode_completion_no_function(resp) ==
    LET parsed == FromStr(resp.body)
        r == parsed.value
    IN  IF ~resp.readable \/ ~parsed.ok THEN Err("json", None, None)
        ELSE IF get_text(r) = None THEN Err("missing_completion", None, None)
        ELSE IF get_prompt_tokens(r) = None
             THEN Err("missing_prompt_tokens", None, None)
        ELSE IF get_completion_tokens(r) = None
             THEN Err("missing_completion_tokens", None, None)
        ELSE IF get_total_tokens(r) = None
             THEN Err("missing_total_tokens", None, None)
        ELSE Ok(NormalizedCompletion(Unwrap(get_text(r)),
                                     Unwrap(get_prompt_tokens(r)),
                                     Unwrap(get_completion_tokens(r)),
                                     Unwrap(get_total_tokens(r)),
                                     None))

\* generate_content once the status was a success: response.json(), then
\* the text and the three counts, each required, in this order.
decode_completion(resp) ==
    LET parsed == FromStr(resp.body)
        r == parsed.value
    IN  IF ~resp.readable \/ ~parsed.ok THEN Err("json", None, None)
        ELSE IF get_text(r) = None THEN Err("missing_completion", None, None)
        ELSE IF get_prompt_tokens(r) = None
             THEN Err("missing_prompt_tokens", None, None)
        ELSE IF get_completion_tokens(r) = None
             THEN Err("missing_completion_tokens", None, None)
        ELSE IF get_total_tokens(r) = None
             THEN Err("missing_total_tokens", None, None)
        ELSE Ok(NormalizedCompletion(Unwrap(get_text(r)),
                                     Unwrap(get_prompt_tokens(r)),
                                     Unwrap(get_completion_tokens(r)),
                                     Unwrap(get_total_tokens(r)),
                                     get_function(r)))

\* A call that sends its request although build_request failed, and builds
\* it once more for that.
send_request_anyway ==
    /\ callpc = "start"
    /\ request_body' = Some(create_request_body(model, Unwrap(request)))
    /\ \E resp \in Responses :
          /\ response' = Some(resp)
          /\ sends' = sends + 1
          /\ auths' = IF resp.kind = "auth_error" THEN auths + 2 ELSE auths + 1
    /\ callpc' = "sent"
    /\ UNCHANGED <<streamVars, builderVars, model, request, method, result,
                   toolVars, tokenVars>>

\* The request is compiled and sent; the call waits for the answer.  A
\* failure of build_request returns before anything is sent.
send_request ==
    /\ callpc = "start"
    /\ request_body' = Some(create_request_body(model, Unwrap(request)))
    /\ \E resp \in Responses :
          /\ response' = Some(resp)
          /\ sends' = IF resp.kind = "auth_error" THEN sends ELSE sends + 1
    /\ auths' = auths + 1
    /\ callpc' = "sent"
    /\ UNCHANGED <<streamVars, builderVars, model, request, method, result,
                   toolVars, tokenVars>>

\* generate_content from the answer on.
generate_content ==
    /\ callpc = "sent"
    /\ method = "generateContent"
    /\ LET resp == Unwrap(response)
       IN  result' =
               IF resp.kind # "http" THEN Err(resp.kind, None, None)
               ELSE IF ~is_success(resp.status) THEN status_error(resp)
               ELSE decode_completion(resp)
    /\ callpc' = "done"
    /\ UNCHANGED <<streamVars, builderVars, compileVars, method, sends, response,
                   auths, toolVars, tokenVars>>

\* stream_generate_content from the answer on: with a success status the
\* event stream over the body's bytes is returned, not yet polled.
stream_generate_content ==
    /\ callpc = "sent"
    /\ method = "streamGenerateContent?alt=sse"
    /\ LET resp == Unwrap(response)
       IN  IF resp.kind = "http" /\ is_success(resp.status)
           THEN /\ result' = Ok("event_stream")
                /\ wire' = [wire EXCEPT ![1] = resp.body]
                /\ pc' = [pc EXCEPT ![1] = "idle"]
           ELSE /\ result' = IF resp.kind # "http" THEN Err(resp.kind, None, None)
                              ELSE status_error(resp)
                /\ UNCHANGED <<wire, pc>>
    /\ callpc' = "done"
    /\ UNCHANGED <<pos, lastChunk, errs, buffer, pending, delivered, decoded,
                   builderVars, compileVars, method, sends, response, auths,
                   toolVars, tokenVars>>

----------------------------------------------------------------------------
(* The client of gemini/mod.rs: VertexGeminiClient *)

GeminiCompletion(content, prompt_tokens, completion_tokens) ==
    [content |-> content, prompt_tokens |-> prompt_tokens,
     completion_tokens |-> completion_tokens]

\* The bodies this client is answered with: its ResponsePart has a text and
\* nothing else.
VertexBodies ==
    {Json(d) : d \in {1, 3, 6, 7, 11, 12, 13, 14, 15, 17}} \cup {<<"junk">>}

\* VertexGeminiClient::generate_content from the answer on: the status
\* test, response.json(), and the completion with the text and two counts.
VertexGeminiClient_generate_content ==
    /\ callpc = "sent"
    /\ method = "generateContent"
    /\ LET resp == Unwrap(response)
           parsed == FromStr(resp.body)
           r == parsed.value
       IN  result' =
               IF ~is_success(resp.status) THEN status_error(resp)
               ELSE IF ~resp.readable \/ ~parsed.ok THEN Err("json", None, None)
               ELSE Ok(GeminiCompletion(
                        get_text(r),
                        IF r.usage_metadata = None THEN None
                        ELSE Unwrap(r.usage_metadata).candidates_token_count,
                        IF r.usage_metadata = None THEN None
                        ELSE Unwrap(r.usage_metadata).candidates_token_count))
    /\ callpc' = "done"
    /\ UNCHANGED <<streamVars, builderVars, compileVars, method, sends, response,
                   auths, toolVars, tokenVars>>

----------------------------------------------------------------------------
(* Tool declarations: Tool::new and Tool::with_parameter *)

ToolParameters(type, properties, required) ==
    [type |-> type, properties |-> properties, required |-> required]

\* The argument types with_parameter is called with.  The schema of a
\* struct is an object with its fields; the schema of an enum whose variants
\* carry data has no "type" member, and the schema of an optional value has
\* a list for it, so that neither reads as ToolParameters.
ArgTypes == {"TestArgs", "WeatherArgs", "NoArgs", "Shape", "MaybeText"}

\* schema_for!(T), serde_json::to_value and
\* serde_json::from_value::<ToolParameters>
derive_parameters(T) ==
    CASE T = "TestArgs" ->
             Ok(ToolParameters("object", {"query", "limit"}, <<"query", "limit">>))
      [] T = "WeatherArgs" ->
             Ok(ToolParameters("object", {"city"}, <<"city">>))
      [] T = "NoArgs" -> Ok(ToolParameters("object", {}, <<>>))
      [] OTHER -> Err("schema", None, None)

\* A with_parameter that overwrites parameters already set.
with_parameter_overwrite(t, T) ==
    LET parameters == derive_parameters(T)
    IN  IF parameters.value = None THEN parameters
        ELSE Ok([t EXCEPT !.parameters = parameters.value])

\* Tool::with_parameter::<T>(self): the parameters are derived first, and a
\* failure of the derivation is returned; then the tool gets them if it has
\* none and is returned as it is otherwise.
with_parameter(t, T) ==
    LET parameters == derive_parameters(T)
    IN  IF parameters.value = None THEN parameters
        ELSE IF t.parameters = None
             THEN Ok([name |-> t.name, description |-> t.description,
                      parameters |-> parameters.value])
             ELSE Ok(t)

\* The tools Tool::new makes in this model.
NewTools ==
    {[Tool(n) EXCEPT !.description = d] :
        n \in {"search", "get_weather"}, d \in {"Search for items", ""}}

\* The caller unwraps the Result of the last call and calls with_parameter
\* on the tool.
WithParameter ==
    /\ declared # None
    /\ declared.value # None
    /\ Len(applied) <= MaxList
    /\ \E T \in ArgTypes :
          /\ declared' = with_parameter(Unwrap(declared.value), T)
          /\ applied' = Append(applied, T)
    /\ UNCHANGED <<streamVars, builderVars, compileVars, callVars, tokenVars>>

----------------------------------------------------------------------------
(* Bearer token: get_access_token *)

\* What the metadata server lookup returns: a token, or the error of
\* building the client, of the request, of the status or of the parse.
ServerResults ==
    {Ok("ya29.server-a"), Ok("ya29.server-b"),
     Err("client_build", None, None), Err("metadata_send", None, None),
     Err("metadata_status", Some(403), None), Err("metadata_status", Some(404), None),
     Err("metadata_parse", None, None)}

\* What the gcloud lookup returns: the trimmed output of the command, or
\* the error of running it or of its exit status.
LocalResults ==
    {Ok("ya29.local-a"), Ok("ya29.local-b"), Ok(""),
     Err("gcloud_run", None, None), Err("gcloud_auth", None, None)}

\* let remote_token = get_access_token_server().await
get_access_token_server ==
    /\ sources # None
    /\ lookups = <<>>
    /\ lookups' = <<"server">>
    /\ remote_token' = Some(Unwrap(sources).server)
    /\ UNCHANGED <<sources, token>>
    /\ UNCHANGED <<streamVars, builderVars, compileVars, callVars, toolVars>>

\* if remote_token.is_ok() { return remote_token; }
return_remote_token ==
    /\ lookups = <<"server">>
    /\ token = None
    /\ Unwrap(remote_token).error = None
    /\ token' = remote_token
    /\ UNCHANGED <<sources, lookups, remote_token>>
    /\ UNCHANGED <<streamVars, builderVars, compileVars, callVars, toolVars>>

\* A fallback that reports the server's error when the gcloud lookup fails
\* as well.
get_access_token_local_first_error ==
    /\ lookups = <<"server">>
    /\ Unwrap(remote_token).error # None
    /\ lookups' = <<"server", "local">>
    /\ token' = IF Unwrap(sources).local.error = None
                THEN Some(Unwrap(sources).local) ELSE remote_token
    /\ UNCHANGED <<sources, remote_token>>
    /\ UNCHANGED <<streamVars, builderVars, compileVars, callVars, toolVars>>

\* return get_access_token_local().await
get_access_token_local ==
    /\ lookups = <<"server">>
    /\ Unwrap(remote_token).error # None
    /\ lookups' = <<"server", "local">>
    /\ token' = Some(Unwrap(sources).local)
    /\ UNCHANGED <<sources, remote_token>>
    /\ UNCHANGED <<streamVars, builderVars, compileVars, callVars, toolVars>>

----------------------------------------------------------------------------
(* Specifications *)

\* No backend call is under way.
NoCall ==
    /\ method = ""
    /\ callpc = "off"
    /\ sends = 0
    /\ response = None
    /\ result = None
    /\ auths = 0

\* No tool is being built.
NoTool ==
    /\ declared = None
    /\ applied = <<>>

\* No bearer token is being acquired.
NoToken ==
    /\ sources = None
    /\ lookups = <<>>
    /\ remote_token = None
    /\ token = None

\* No request has been handed to a backend handle.
NoCompile ==
    /\ model = <<>>
    /\ request = None
    /\ request_body = None

StreamInit(started) ==
    /\ \A c \in Calls \ started : wire[c] = <<>>
    /\ pos = [c \in Calls |-> 0]
    /\ lastChunk = [c \in Calls |-> <<>>]
    /\ errs = [c \in Calls |-> 0]
    /\ buffer = [c \in Calls |-> <<>>]
    /\ pc = [c \in Calls |-> IF c \in started THEN "idle" ELSE "off"]
    /\ pending = [c \in Calls |-> <<>>]
    /\ delivered = [c \in Calls |-> <<>>]
    /\ decoded = [c \in Calls |-> <<>>]

\* One streaming call on any of the byte streams.
Init ==
    /\ wire \in [Calls -> Wires]
    /\ StreamInit({1})
    /\ builder = new
    /\ forwarded = None
    /\ called = {}
    /\ NoTool
    /\ NoToken
    /\ NoCompile
    /\ NoCall

Next == \E c \in Calls : StreamStep(c)

Spec == Init /\ [][Next]_vars

\* One streaming call over a byte source that yields no error.
NextReliable ==
    \E c \in Calls :
        \/ next_inner(c)
        \/ next_outer(c)
        \/ extract_event(c)
        \/ read_chunk(c)
        \/ read_end(c)

SpecReliable == Init /\ [][NextReliable]_vars

\* One streaming call over a byte source that yields its chunks and then
\* ends, with a consumer that keeps asking for the next event: a step that
\* is possible is taken in the end.
SpecLive == Init /\ [][NextReliable]_vars /\ WF_vars(NextReliable)

\* One streaming call whose consumer may drop the event stream.
NextCancel ==
    \E c \in Calls :
        \/ StreamStep(c)
        \/ drop_stream(c)

SpecCancel == Init /\ [][NextCancel]_vars

\* The byte streams of two calls made on the same backend handle.
PairWires ==
    {DataFrame(1) \o <<": ping">>,
     JunkFrame \o <<"data: ", "{4">>}

\* Two streaming calls at once; their steps interleave in any order.
InitTwo ==
    /\ wire \in [Calls -> PairWires]
    /\ StreamInit({1, 2})
    /\ builder = new
    /\ forwarded = None
    /\ called = {}
    /\ NoTool
    /\ NoToken
    /\ NoCompile
    /\ NoCall

SpecTwo == InitTwo /\ [][Next]_vars

\* A builder under any sequence of with_* calls.
InitBuilder ==
    /\ wire = [c \in Calls |-> <<>>]
    /\ StreamInit({})
    /\ builder = new
    /\ forwarded = None
    /\ called = {}
    /\ NoTool
    /\ NoToken
    /\ NoCompile
    /\ NoCall

NextBuilder ==
    \/ WithSystem
    \/ WithMessage
    \/ WithMessages
    \/ WithSettings
    \/ WithTool
    \/ WithTools

SpecBuilder == InitBuilder /\ [][NextBuilder]_vars

\* A builder under any sequence of with_* calls and terminal operations.
NextTerminal ==
    \/ WithSystem
    \/ WithMessage
    \/ WithMessages
    \/ WithSettings
    \/ WithTool
    \/ WithTools
    \/ ToModelRequest
    \/ Completion
    \/ Stream

SpecTerminal == InitBuilder /\ [][NextTerminal]_vars

\* The compiler run on any generic request for any model identifier.
InitCompile ==
    /\ wire = [c \in Calls |-> <<>>]
    /\ StreamInit({})
    /\ builder = new
    /\ forwarded = None
    /\ called = {}
    /\ NoTool
    /\ NoToken
    /\ model \in Models
    /\ request \in {Some(r) : r \in Requests}
    /\ request_body = None
    /\ NoCall

NextCompile == Compile

SpecCompile == InitCompile /\ [][NextCompile]_vars

\* A new tool under any sequence of with_parameter calls.
InitTool ==
    /\ wire = [c \in Calls |-> <<>>]
    /\ StreamInit({})
    /\ builder = new
    /\ forwarded = None
    /\ called = {}
    /\ NoCompile
    /\ NoCall
    /\ declared \in {Ok(t) : t \in NewTools}
    /\ applied = <<>>
    /\ NoToken

NextTool == WithParameter

SpecTool == InitTool /\ [][NextTool]_vars

\* The requests of the calls made on the backend handle.
CallRequests ==
    {[system |-> None, messages |-> Some(<<Message("hi", Some("user"))>>),
      settings |-> None, tools |-> None],
     [system |-> Some("you are helpful"),
      messages |-> Some(<<Message("hi", None)>>),
      settings |-> Some(Settings(Some(100), Some(0))),
      tools |-> Some(<<Tool("get_weather")>>)]}

\* One completion or stream call, with any answer of the transport.
InitCall ==
    /\ wire = [c \in Calls |-> <<>>]
    /\ StreamInit({})
    /\ builder = new
    /\ forwarded = None
    /\ called = {}
    /\ NoTool
    /\ NoToken
    /\ model = <<"gemini-", "2", ".", "5", "-flash">>
    /\ request \in {Some(r) : r \in CallRequests}
    /\ request_body = None
    /\ method \in Methods
    /\ callpc = "start"
    /\ sends = 0
    /\ auths = 0
    /\ response = None
    /\ result = None

NextCall ==
    \/ send_request
    \/ generate_content
    \/ stream_generate_content
    \/ \E c \in Calls : StreamStep(c)

SpecCall == InitCall /\ [][NextCall]_vars

\* One generate_content call of VertexGeminiClient, from the arrival of the
\* response on.
InitVertex ==
    /\ wire = [c \in Calls |-> <<>>]
    /\ StreamInit({})
    /\ builder = new
    /\ forwarded = None
    /\ called = {}
    /\ NoTool
    /\ NoToken
    /\ NoCompile
    /\ method = "generateContent"
    /\ callpc = "sent"
    /\ sends = 1
    /\ auths = 1
    /\ response \in {Some(Response("http", st, b, rd)) :
                        st \in Statuses, b \in VertexBodies, rd \in BOOLEAN}
    /\ result = None

NextVertex == VertexGeminiClient_generate_content

SpecVertex == InitVertex /\ [][NextVertex]_vars

\* One get_access_token call, with any answers of the two sources.
InitToken ==
    /\ wire = [c \in Calls |-> <<>>]
    /\ StreamInit({})
    /\ builder = new
    /\ forwarded = None
    /\ called = {}
    /\ NoTool
    /\ NoCompile
    /\ NoCall
    /\ sources \in {Some([server |-> s, local |-> l]) :
                       s \in ServerResults, l \in LocalResults}
    /\ lookups = <<>>
    /\ remote_token = None
    /\ token = None

NextToken ==
    \/ get_access_token_server
    \/ return_remote_token
    \/ get_access_token_local

SpecToken == InitToken /\ [][NextToken]_vars

----------------------------------------------------------------------------
(* Notions the properties are stated with *)

AllEvents(c) == delivered[c] \o pending[c]

IsParseErrorEvent(e) == e.kind = "Error" /\ e.name = "parse"
IsTransportErrorEvent(e) == e.kind = "Error" /\ e.name = "transport"

EventsOfFrame(c, k) == SelectSeq(AllEvents(c), LAMBDA e : e.frame = k)

Kinds(es) == [i \in 1..Len(es) |-> es[i].kind]

Rank(kind) ==
    CASE kind = "Delta" -> 1
      [] kind = "FunctionCall" -> 2
      [] kind = "Usage" -> 3
      [] OTHER -> 4

\* The number of double newlines in a byte sequence, read left to right.
RECURSIVE DelimCount(_)
DelimCount(s) ==
    IF Len(s) < 2 THEN 0
    ELSE IF s[1] = "LF" /\ s[2] = "LF" THEN 1 + DelimCount(SubSeq(s, 3, Len(s)))
    ELSE DelimCount(Tail(s))

\* The frames of a byte sequence: the texts its double newlines terminate.
RECURSIVE FramesFrom(_, _)
FramesFrom(s, acc) ==
    IF Len(s) < 2 THEN <<>>
    ELSE IF s[1] = "LF" /\ s[2] = "LF"
         THEN <<acc>> \o FramesFrom(SubSeq(s, 3, Len(s)), <<>>)
    ELSE FramesFrom(Tail(s), Append(acc, s[1]))

FramesOf(s) == FramesFrom(s, <<>>)

\* A text with every byte of a non-ASCII character, valid or replaced,
\* made the same.
Blur(s) == [i \in 1..Len(s) |-> IF s[i] \in {"U1", "U2", "FFFD"} THEN "FFFD" ELSE s[i]]

\* The response frame number k of call c was parsed to.
ParsedFrame(c, k) == FromStr(data(decoded[c][k]))

FirstParts(r) == IF r.candidates = <<>> THEN <<>> ELSE r.candidates[1]

TextOf(r) == Concat([i \in 1..Len(FirstParts(r)) |-> FirstParts(r)[i].text])

HasCallPart(r) == \E i \in 1..Len(FirstParts(r)) : FirstParts(r)[i].function_call # None

UsageComplete(r) ==
    /\ r.usage_metadata # None
    /\ r.usage_metadata[1].prompt_token_count # None
    /\ r.usage_metadata[1].candidates_token_count # None
    /\ r.usage_metadata[1].total_token_count # None

Started == {c \in Calls : pc[c] # "off"}

----------------------------------------------------------------------------
(* Streaming reassembly *)

\* C1: a frame is split off only once the chunk completing its double
\* newline has arrived, also when that chunk is the second newline alone,
\* and each delimited frame of the bytes received is decoded exactly once, in
\* order: no event and no decoded frame exists beyond the delimiters
\* received, and when the engine asks for more bytes or ends, every delimited
\* frame has been decoded.
C1_FrameAfterDelimiterOnce ==
    \A c \in Started :
        /\ Len(decoded[c]) <= DelimCount(received(c))
        /\ \A i \in 1..Len(AllEvents(c)) :
              AllEvents(c)[i].frame <= DelimCount(received(c))
        /\ \A k \in 1..Len(decoded[c]) :
              Blur(decoded[c][k]) = Blur(FramesOf(received(c))[k])
        /\ (pc[c] = "done" \/ (pc[c] = "loop" /\ DelimCount(buffer[c]) = 0))
              => Len(decoded[c]) = DelimCount(received(c))

\* The delimiter arrived split: the last chunk is the second newline alone,
\* and the frame it completes has been decoded and its Delta delivered.
C1_Witness ==
    \E c \in Started :
        /\ lastChunk[c] = <<"LF">>
        /\ pos[c] >= 3
        /\ wire[c][pos[c] - 1] = "LF"
        /\ wire[c][pos[c] - 2] # "LF"
        /\ \E i \in 1..Len(delivered[c]) :
              /\ delivered[c][i].kind = "Delta"
              /\ delivered[c][i].frame = DelimCount(received(c))

\* C2: a frame whose payload does not parse yields one Error event, and
\* after that event the stream produces no further event and splits no
\* further frame off the buffer.
C2_ParseErrorEndsStream ==
    \A c \in Started :
        \A i \in 1..Len(AllEvents(c)) :
            IsParseErrorEvent(AllEvents(c)[i]) =>
                /\ i = Len(AllEvents(c))
                /\ Len(decoded[c]) = AllEvents(c)[i].frame

\* A step in which try_next returned to call c: a chunk, the end of the
\* input, or an error.
ReadStep(c) ==
    \/ pos'[c] # pos[c]
    \/ errs'[c] # errs[c]
    \/ pc[c] # "done" /\ pc'[c] = "done"

\* C3: a parsed frame yields a Delta exactly when the concatenated text of
\* the parts is not empty, and a Usage exactly when the usage block carries
\* all three counts; without a function call part, text and complete usage
\* give Delta then Usage, and empty text and complete usage give Usage alone.
C3_FiringConditions ==
    \A c \in Started :
        \A k \in 1..Len(decoded[c]) :
            LET p == ParsedFrame(c, k)
                ks == Kinds(EventsOfFrame(c, k))
            IN  (data(decoded[c][k]) # <<>> /\ p.ok) =>
                    /\ (\E i \in 1..Len(ks) : ks[i] = "Delta") <=> TextOf(p.value) # <<>>
                    /\ (\E i \in 1..Len(ks) : ks[i] = "Usage") <=> UsageComplete(p.value)
                    /\ (~HasCallPart(p.value) /\ UsageComplete(p.value)) =>
                          ks = IF TextOf(p.value) # <<>>
                               THEN <<"Delta", "Usage">> ELSE <<"Usage">>

\* A frame with text, complete usage and no function call was decoded and
\* its Delta and its Usage were delivered.
C3_Witness ==
    \E c \in Started :
        \E k \in 1..Len(decoded[c]) :
            /\ ParsedFrame(c, k).ok
            /\ TextOf(ParsedFrame(c, k).value) # <<>>
            /\ UsageComplete(ParsedFrame(c, k).value)
            /\ ~HasCallPart(ParsedFrame(c, k).value)
            /\ Kinds(SelectSeq(delivered[c], LAMBDA e : e.frame = k)) = <<"Delta", "Usage">>

\* C4: the events of a parsed frame are a subsequence of Delta,
\* FunctionCall, Usage: in this order, at most one of each kind.
C4_FrameOrder ==
    \A c \in Started :
        \A k \in 1..Len(decoded[c]) :
            LET ks == Kinds(EventsOfFrame(c, k))
            IN  (data(decoded[c][k]) # <<>> /\ ParsedFrame(c, k).ok) =>
                    /\ \A i \in 1..Len(ks) : ks[i] \in {"Delta", "FunctionCall", "Usage"}
                    /\ \A i, j \in 1..Len(ks) : i < j => Rank(ks[i]) < Rank(ks[j])

\* A frame has produced all three kinds and all three were delivered.
C4_Witness ==
    \E c \in Started :
        \E k \in 1..Len(decoded[c]) :
            /\ Len(EventsOfFrame(c, k)) = 3
            /\ \E i \in 1..Len(delivered[c]) :
                  delivered[c][i].kind = "Usage" /\ delivered[c][i].frame = k

\* C5: once the Error event of a transport error has been emitted, the
\* byte source is not read again and no further event is produced.
C5_TransportErrorEndsStream ==
    [][\A c \in Started :
          (\E i \in 1..Len(delivered[c]) : IsTransportErrorEvent(delivered[c][i])) =>
              /\ ~ReadStep(c)
              /\ delivered'[c] = delivered[c]]_vars

\* C6: when the input ends with an undelimited remainder in the buffer the
\* stream ends, and no frame and no event exists for the remainder: every
\* decoded frame and every event belongs to a delimited frame of the bytes
\* received, and no further step of the call is possible.
C6_RemainderDiscarded ==
    \A c \in Started :
        pc[c] = "done" =>
            /\ pending[c] = <<>>
            /\ Len(decoded[c]) = DelimCount(received(c))
            /\ \A i \in 1..Len(delivered[c]) :
                  delivered[c][i].frame <= DelimCount(received(c))
            /\ ~ENABLED StreamStep(c)

\* The stream has ended with a remainder that holds a whole document.
C6_Witness ==
    \E c \in Started :
        /\ pc[c] = "done"
        /\ buffer[c] # <<>>
        /\ FromStr(data(buffer[c])).ok
        /\ delivered[c] # <<>>

\* C7: the byte source is read only while a request of the consumer is
\* pending, every event of the last decoded frame has been handed out and
\* the buffer holds no complete frame; a frame is decoded only while a
\* request is pending; between requests nothing is read or decoded.
C7_PullBased ==
    [][\A c \in Started :
          /\ ReadStep(c) =>
                /\ pc[c] = "loop"
                /\ pending[c] = <<>>
                /\ DelimCount(buffer[c]) = 0
          /\ decoded'[c] # decoded[c] => pc[c] = "loop"
          /\ pc[c] = "idle" =>
                /\ buffer'[c] = buffer[c]
                /\ ~ReadStep(c)
                /\ decoded'[c] = decoded[c]]_vars

\* Between two requests, with an event delivered, bytes left at the source
\* and a complete frame waiting in the buffer.
C7_Witness ==
    \E c \in Started :
        /\ pc[c] = "idle"
        /\ delivered[c] # <<>>
        /\ pos[c] < Len(wire[c])
        /\ DelimCount(buffer[c]) > 0

\* C8: events are delivered in frame order and, within a frame, in the
\* order Delta, FunctionCall, Usage; the events decoded and not yet
\* delivered belong to one frame.
C8_Ordering ==
    \A c \in Started :
        /\ \A i, j \in 1..Len(AllEvents(c)) :
              (i < j /\ AllEvents(c)[i].frame # 0 /\ AllEvents(c)[j].frame # 0) =>
                  /\ AllEvents(c)[i].frame <= AllEvents(c)[j].frame
                  /\ AllEvents(c)[i].frame = AllEvents(c)[j].frame =>
                        Rank(AllEvents(c)[i].kind) < Rank(AllEvents(c)[j].kind)
        /\ \A i, j \in 1..Len(pending[c]) : pending[c][i].frame = pending[c][j].frame
        /\ \A i \in 1..Len(AllEvents(c)) :
              AllEvents(c)[i].frame # 0 =>
                  LET k == AllEvents(c)[i].frame
                      out == Outcome(data(decoded[c][k]), k)
                  IN  \E n \in 1..Len(out) : out[n] = AllEvents(c)[i]

\* Events of two frames were delivered, three of them from one frame.
C8_Witness ==
    \E c \in Started :
        /\ Len(delivered[c]) >= 4
        /\ delivered[c][1].frame = 1
        /\ delivered[c][Len(delivered[c])].frame = 2
        /\ Len(EventsOfFrame(c, 1)) = 3

\* A double newline somewhere in the bytes.
HasDelimiter(b) == \E i \in 1..(Len(b) - 1) : b[i] = "LF" /\ b[i + 1] = "LF"

\* C30: whenever try_next is called on the byte source, and when the
\* stream has ended, the buffer holds no double newline: at most one
\* incomplete frame and no complete frame.
C30_BufferHoldsNoFrame ==
    [][\A c \in Started :
          /\ ReadStep(c) => ~HasDelimiter(buffer[c])
          /\ pc'[c] = "done" => ~HasDelimiter(buffer'[c])]_vars

\* After a decoded frame, with the first bytes of the next frame in the
\* buffer and bytes left at the source, the closure is at try_next.
C30_Witness ==
    \E c \in Started :
        /\ pc[c] = "loop"
        /\ decoded[c] # <<>>
        /\ buffer[c] # <<>>
        /\ ~HasDelimiter(buffer[c])
        /\ pos[c] < Len(wire[c])

\* C27: when the consumer drops the event stream before its end, the
\* buffer and the events not handed out go with it, and from then on the
\* byte source of the call is not read, nothing is decoded and nothing is
\* delivered.
C27_DropReleases ==
    [][\A c \in Started :
          /\ pc'[c] = "dropped" =>
                /\ buffer'[c] = <<>>
                /\ pending'[c] = <<>>
          /\ pc[c] = "dropped" =>
                /\ ~ReadStep(c)
                /\ pc'[c] = "dropped"
                /\ decoded'[c] = decoded[c]
                /\ delivered'[c] = delivered[c]]_vars

\* The stream was dropped after an event, with bytes in its buffer at the
\* time of the drop and bytes left at the source.
C27_Witness ==
    \E c \in Started :
        /\ pc[c] = "dropped"
        /\ delivered[c] # <<>>
        /\ pos[c] < Len(wire[c])
        /\ Len(Concat(decoded[c])) + 2 * Len(decoded[c]) < pos[c]

\* The stream of call c has ended with all the input read and exactly the
\* delimited frames of the input decoded, in order.
EndedComplete(c) ==
    /\ pc[c] = "done"
    /\ pos[c] = Len(wire[c])
    /\ Len(decoded[c]) = DelimCount(wire[c])
    /\ \A k \in 1..Len(decoded[c]) :
          Blur(decoded[c][k]) = Blur(FramesOf(wire[c])[k])

\* C28: over a byte source that yields finitely many chunks and then ends
\* normally, a consumer that keeps asking reaches the end of the event
\* stream, and by then every delimited frame of the input has been decoded.
C28_StreamTerminates ==
    <>(\A c \in Started : EndedComplete(c))

\* The stream has ended after two decoded frames, the input read to its
\* end with an undelimited rest.
C28_Witness ==
    \E c \in Started :
        /\ EndedComplete(c)
        /\ Len(decoded[c]) = 2
        /\ buffer[c] # <<>>
        /\ errs[c] = 0

\* C31: a step that splits a frame off takes the bytes before the first
\* double newline of the buffer as the frame and leaves exactly the bytes
\* after that double newline in the buffer, none lost, doubled or changed.
C31_ExtractionConservesBytes ==
    [][\A c \in Started :
          decoded'[c] # decoded[c] =>
              /\ HasDelimiter(buffer[c])
              /\ decoded'[c] =
                    Append(decoded[c], SubSeq(buffer[c], 1, Find(buffer[c]) - 1))
              /\ buffer'[c] =
                    SubSeq(buffer[c], Find(buffer[c]) + 2, Len(buffer[c]))]_vars

\* The end of the line of s that starts at i: the index of its newline,
\* or one past the end of s.
LineEnd(s, i) ==
    IF \E j \in i..Len(s) : s[j] = "LF"
    THEN CHOOSE j \in i..Len(s) : s[j] = "LF" /\ \A m \in i..(j - 1) : s[m] # "LF"
    ELSE Len(s) + 1

\* The lines of s from index i on that start with "data: ", each without
\* that prefix, one after the other.
RECURSIVE PayloadFrom(_, _)
PayloadFrom(s, i) ==
    IF i > Len(s) THEN <<>>
    ELSE (IF s[i] = "data: " THEN SubSeq(s, i + 1, LineEnd(s, i) - 1) ELSE <<>>)
         \o PayloadFrom(s, LineEnd(s, i) + 1)

\* C32: the payload of a frame is the concatenation, in line order and
\* with nothing between them, of what follows "data: " on the lines that
\* start with it; no other line adds to it, and the events of the frame are
\* those of this payload.
C32_PayloadFromDataLines ==
    \A c \in Started :
        \A k \in 1..Len(decoded[c]) :
            /\ data(decoded[c][k]) = PayloadFrom(decoded[c][k], 1)
            /\ EventsOfFrame(c, k) = Outcome(PayloadFrom(decoded[c][k], 1), k)

\* A frame of two data lines, each with half of a document, was decoded and
\* the Delta of the whole document delivered.
C32_Witness ==
    \E c \in Started :
        \E k \in 1..Len(decoded[c]) :
            /\ Len(lines(decoded[c][k])) = 2
            /\ \A i \in 1..2 : IsSome(strip_prefix(lines(decoded[c][k])[i]))
            /\ \E i \in 1..Len(delivered[c]) :
                  delivered[c][i].kind = "Delta" /\ delivered[c][i].frame = k

\* C33: a step that splits off a frame without a data line hands out no
\* event and no error and queues none, does not end the stream, and leaves
\* the closure in its loop, at the next frame of the buffer or at the next
\* chunk.
C33_EmptyPayloadSkipped ==
    [][\A c \in Started :
          (/\ decoded'[c] # decoded[c]
           /\ PayloadFrom(decoded'[c][Len(decoded'[c])], 1) = <<>>) =>
              /\ delivered'[c] = delivered[c]
              /\ pending'[c] = pending[c]
              /\ pc'[c] = "loop"
              /\ \A i \in 1..Len(AllEvents(c)') :
                    AllEvents(c)'[i].frame # Len(decoded'[c])]_vars

\* A frame without a data line was split off and an event of a later frame
\* has been delivered.
C33_Witness ==
    \E c \in Started :
        \E k \in 1..Len(decoded[c]) :
            /\ PayloadFrom(decoded[c][k], 1) = <<>>
            /\ decoded[c][k] # <<>>
            /\ \E i \in 1..Len(delivered[c]) : delivered[c][i].frame > k

\* C34: every frame split off with a payload that is not empty has produced
\* at least one event.
C34_NonEmptyPayloadHasEvent ==
    \A c \in Started :
        \A k \in 1..Len(decoded[c]) :
            PayloadFrom(decoded[c][k], 1) # <<>> => EventsOfFrame(c, k) # <<>>

\* C34, amended: a frame split off with a payload that is not empty has
\* produced no event exactly when the payload parses and holds nothing to
\* report: no text in its first candidate, no function call and no usage
\* block with all three counts.  A payload that does not parse has produced
\* one Error event.
C34_SilentOnlyWithNothingToReport ==
    \A c \in Started :
        \A k \in 1..Len(decoded[c]) :
            LET payload == PayloadFrom(decoded[c][k], 1)
                p == FromStr(payload)
            IN  payload # <<>> =>
                    /\ EventsOfFrame(c, k) = <<>> <=>
                          /\ p.ok
                          /\ TextOf(p.value) = <<>>
                          /\ ~HasCallPart(p.value)
                          /\ ~UsageComplete(p.value)
                    /\ ~p.ok => Kinds(EventsOfFrame(c, k)) = <<"Error">>

\* The stream has ended after a frame whose payload parsed and that
\* produced no event.
C34_Witness ==
    \E c \in Started :
        /\ pc[c] = "done"
        /\ \E k \in 1..Len(decoded[c]) :
              /\ PayloadFrom(decoded[c][k], 1) # <<>>
              /\ FromStr(PayloadFrom(decoded[c][k], 1)).ok
              /\ EventsOfFrame(c, k) = <<>>

----------------------------------------------------------------------------
(* Concurrent calls *)

\* The decoded frames with their delimiters put back.
RECURSIVE Rejoin(_)
Rejoin(frames) ==
    IF frames = <<>> THEN <<>> ELSE Head(frames) \o LFLF \o Rejoin(Tail(frames))

\* The events of the frames a call has decoded, in frame order.
RECURSIVE OutcomesFrom(_, _)
OutcomesFrom(frames, k) ==
    IF frames = <<>> THEN <<>>
    ELSE Outcome(data(Head(frames)), k) \o OutcomesFrom(Tail(frames), k + 1)

\* C9: with two calls interleaved in any order, each call's buffer holds
\* exactly the bytes of its own stream that it has read and not yet split
\* off, and each call's events are exactly the events of the frames of its
\* own stream, as when it runs alone.
C9_CallsIsolated ==
    \A c \in Started :
        /\ Blur(Rejoin(decoded[c]) \o buffer[c]) = Blur(received(c))
        /\ SelectSeq(AllEvents(c), LAMBDA e : ~IsTransportErrorEvent(e))
              = OutcomesFrom(decoded[c], 1)
        /\ \A k \in 1..Len(decoded[c]) :
              Blur(decoded[c][k]) = Blur(FramesOf(received(c))[k])

\* Both calls are under way at once, each with events delivered and with
\* bytes of its own in its buffer.
C9_Witness ==
    /\ Started = {1, 2}
    /\ wire[1] # wire[2]
    /\ buffer[1] # <<>> /\ buffer[2] # <<>>
    /\ delivered[1] # <<>> /\ delivered[2] # <<>>
    /\ pc[1] = "loop" /\ pc[2] = "loop"

----------------------------------------------------------------------------
(* Builder *)

\* C10: from any builder, the add-many call on [a, b] followed by the
\* add-one call on c gives the same list as three add-one calls on a, b and
\* c, for the messages and for the tools.
C10_AccumulationAssociative ==
    /\ \A a, b, c \in Messages :
          with_message(with_messages(builder, <<a, b>>), c).messages
              = with_message(with_message(with_message(builder, a), b), c).messages
    /\ \A a, b, c \in Tools :
          with_tool(with_tools(builder, <<a, b>>), c).tools
              = with_tool(with_tool(with_tool(builder, a), b), c).tools

\* C11: on a builder whose tool list is populated, with_tool appends the
\* tool and with_tools appends the tools after the existing ones, so that
\* the list is the concatenation of all arguments in call order.
C11_ToolsCumulative ==
    builder.tools # None =>
        /\ \A tool \in Tools :
              with_tool(builder, tool).tools
                  = Some(Append(Unwrap(builder.tools), tool))
        /\ \A tools \in Vecs(Tools) :
              with_tools(builder, tools).tools
                  = Some(Unwrap(builder.tools) \o tools)

\* C12: once the message list is populated, every step leaves it a prefix
\* of the new list, with_message adds exactly the given message at the end
\* and with_messages exactly the given messages, in the given order.
C12_MessagesOnlyAppended ==
    [][builder.messages # None =>
          /\ \E ms \in Vecs(Messages) :
                builder'.messages = Some(Unwrap(builder.messages) \o ms)
          /\ \A m \in Messages :
                with_message(builder, m).messages
                    = Some(Append(Unwrap(builder.messages), m))
          /\ \A ms \in Vecs(Messages) :
                with_messages(builder, ms).messages
                    = Some(Unwrap(builder.messages) \o ms)]_vars

\* A populated list that a later call has extended by a different message.
C12_Witness ==
    /\ builder.messages # None
    /\ Len(Unwrap(builder.messages)) = MaxList
    /\ Unwrap(builder.messages)[1] # Unwrap(builder.messages)[MaxList]

\* The fields of the builder other than f.
OtherFields(b, f) == [g \in (DOMAIN b) \ {f} |-> b[g]]

\* C13: with_system and with_settings set their field to the argument
\* whatever it held and change nothing else, a second call overrides the
\* first, a repeated call changes nothing, and no other with_* call touches
\* the two fields.
C13_LastWriteWins ==
    /\ \A s1, s2 \in Systems :
          /\ with_system(builder, s1).system = Some(s1)
          /\ OtherFields(with_system(builder, s1), "system")
                = OtherFields(builder, "system")
          /\ with_system(with_system(builder, s1), s2).system = Some(s2)
          /\ with_system(with_system(builder, s1), s1) = with_system(builder, s1)
    /\ \A s1, s2 \in SettingsValues :
          /\ with_settings(builder, s1).settings = Some(s1)
          /\ OtherFields(with_settings(builder, s1), "settings")
                = OtherFields(builder, "settings")
          /\ with_settings(with_settings(builder, s1), s2).settings = Some(s2)
          /\ with_settings(with_settings(builder, s1), s1)
                = with_settings(builder, s1)
    /\ \A f \in {"system", "settings"} :
          /\ \A m \in Messages : with_message(builder, m)[f] = builder[f]
          /\ \A ms \in Vecs(Messages) : with_messages(builder, ms)[f] = builder[f]
          /\ \A t \in Tools : with_tool(builder, t)[f] = builder[f]
          /\ \A ts \in Vecs(Tools) : with_tools(builder, ts)[f] = builder[f]
          /\ \A s \in Systems : f # "system" => with_system(builder, s)[f] = builder[f]
          /\ \A s \in SettingsValues :
                f # "settings" => with_settings(builder, s)[f] = builder[f]

\* Both scalar fields set, with lists present, so that a with_system or
\* with_settings call here overwrites a value.
C13_Witness ==
    /\ builder.system = Some("be brief")
    /\ builder.settings = Some(Settings(None, None))
    /\ builder.messages # None
    /\ builder.tools # None

\* C14: a terminal operation produces a request that holds the builder's
\* current system, messages, settings and tools and leaves the builder as
\* it is; a with_* call changes no request produced earlier; and every
\* terminal operation can be used again afterwards.
C14_TerminalSnapshots ==
    [][/\ forwarded' # forwarded =>
             /\ builder' = builder
             /\ \E op \in TerminalOps :
                   forwarded' =
                       Some([op |-> op,
                             request |-> [system |-> builder.system,
                                          messages |-> builder.messages,
                                          settings |-> builder.settings,
                                          tools |-> builder.tools]])
       /\ builder' # builder => forwarded' = forwarded
       /\ forwarded # None =>
             \A op \in TerminalOps \ {Unwrap(forwarded).op} : ENABLED Terminal(op)]_vars

\* A request produced by stream, with system, messages, settings and tools,
\* that every field of the builder has moved away from since.
C14_Witness ==
    /\ forwarded # None
    /\ Unwrap(forwarded).op = "stream"
    /\ Unwrap(forwarded).request.tools # None
    /\ \A f \in {"system", "messages", "settings"} :
          /\ Unwrap(forwarded).request[f] # None
          /\ Unwrap(forwarded).request[f] # builder[f]

\* C29: a field of the builder is present exactly when a with_* call for
\* that field has been made; in a new builder all four are absent.
C29_PresentIffCalled ==
    \A f \in {"system", "messages", "settings", "tools"} :
        builder[f] # None <=> f \in called

\* with_* calls were made for the system and the tools only, the latter
\* with an empty list.
C29_Witness ==
    /\ called = {"system", "tools"}
    /\ builder.tools = Some(<<>>)
    /\ builder.messages = None

\* C39: each with_* call leaves every field of the builder but its own as it
\* is, for the builder reached and every argument, and the builder stays
\* bound to the model handle it was created with.
C39_OwnFieldOnly ==
    /\ \A s \in Systems :
          OtherFields(with_system(builder, s), "system") = OtherFields(builder, "system")
    /\ \A m \in Messages :
          OtherFields(with_message(builder, m), "messages")
              = OtherFields(builder, "messages")
    /\ \A ms \in Vecs(Messages) :
          OtherFields(with_messages(builder, ms), "messages")
              = OtherFields(builder, "messages")
    /\ \A s \in SettingsValues :
          OtherFields(with_settings(builder, s), "settings")
              = OtherFields(builder, "settings")
    /\ \A t \in Tools :
          OtherFields(with_tool(builder, t), "tools") = OtherFields(builder, "tools")
    /\ \A ts \in Vecs(Tools) :
          OtherFields(with_tools(builder, ts), "tools") = OtherFields(builder, "tools")
    /\ builder.model = new.model
    /\ DOMAIN builder = DOMAIN new

\* All four fields are present, with two messages, so that each with_* call
\* here has other fields it could disturb.
C39_Witness ==
    /\ called = {"system", "messages", "settings", "tools"}
    /\ builder.system # None
    /\ builder.settings # None
    /\ ListLen(builder.messages) = MaxList
    /\ ListLen(builder.tools) >= 1

----------------------------------------------------------------------------
(* Request compilation *)

\* C15: the compiled request has no thinking configuration exactly when the
\* model identifier contains "1.5" or "2.0".
C15_ThinkingByVersion ==
    request_body # None =>
        (Unwrap(request_body).generation_config.thinking_config = None
            <=> \/ contains(model, <<"1", ".", "5">>)
                \/ contains(model, <<"2", ".", "0">>))

\* A request with a thinking budget compiled for a 2.0 model.
C15_Witness ==
    /\ request_body # None
    /\ contains(model, <<"2", ".", "0">>)
    /\ Unwrap(request).settings # None
    /\ Unwrap(Unwrap(request).settings).thinking_budget = Some(5)
    /\ Unwrap(request_body).generation_config.thinking_config = None

\* C19: for max_tokens, temperature and thinking_budget, a setting that is
\* absent (no settings, or the field is None) has no value in the compiled
\* request.
C19_AbsentNeverZero ==
    request_body # None =>
        LET settings == Unwrap(request).settings
            absent(f) == settings = None \/ Unwrap(settings)[f] = None
            config == Unwrap(request_body).generation_config
        IN  /\ absent("max_tokens") => config.max_output_tokens = None
            /\ absent("temperature") => config.temperature = None
            /\ absent("thinking_budget") =>
                  \/ config.thinking_config = None
                  \/ Unwrap(config.thinking_config).thinking_budget = None

\* C20: a request whose message list (tool list) is absent compiles to the
\* same wire request as the request with that list present and empty.
C20_AbsentListIsEmpty ==
    request_body # None =>
        LET req == Unwrap(request)
        IN  /\ req.messages = None =>
                  create_request_body(model, [req EXCEPT !.messages = Some(<<>>)])
                      = Unwrap(request_body)
            /\ req.tools = None =>
                  create_request_body(model, [req EXCEPT !.tools = Some(<<>>)])
                      = Unwrap(request_body)

\* C35: a request with a tool list compiles to one block of function
\* declarations, one for each tool and in the order of the tools, each with
\* the name, description and parameters of its tool; a request without a
\* tool list compiles to a request without tools.
C35_ToolsOneToOne ==
    request_body # None =>
        LET req == Unwrap(request)
            body == Unwrap(request_body)
        IN  /\ req.tools = None => body.tools = None
            /\ req.tools # None =>
                  /\ body.tools # None
                  /\ Len(Unwrap(body.tools)) = 1
                  /\ LET decls == Unwrap(body.tools)[1].function_declarations
                         tools == Unwrap(req.tools)
                     IN  /\ Len(decls) = Len(tools)
                         /\ \A i \in 1..Len(tools) :
                               /\ decls[i].name = tools[i].name
                               /\ decls[i].description = tools[i].description
                               /\ decls[i].parameters = tools[i].parameters

\* A request with two tools has been compiled.
C35_Witness ==
    /\ request_body # None
    /\ Unwrap(request).tools # None
    /\ Len(Unwrap(Unwrap(request).tools)) = 2
    /\ Len(Unwrap(Unwrap(request_body).tools)[1].function_declarations) = 2

\* C36: when the input has ended, the events handed out are those of the
\* frames of the whole byte sequence, decoded as one text: the same for
\* every way of cutting the sequence into chunks, also with a cut inside a
\* two-byte character or inside a delimiter.
C36_ChunkingIndependent ==
    \A c \in Started :
        (pc[c] = "done" /\ errs[c] = 0) =>
            delivered[c] = OutcomesFrom(FramesOf(from_utf8_lossy(wire[c])), 1)

----------------------------------------------------------------------------
(* Calls on the backend handle *)

\* The call is over and the transport had answered with a response.
Answered == callpc = "done" /\ Unwrap(response).kind = "http"

\* A completion call is over whose response had a success status and a
\* body that was read and parsed.
Decoded ==
    /\ Answered
    /\ method = "generateContent"
    /\ Unwrap(response).status \in 200..299
    /\ Unwrap(response).readable
    /\ FromStr(Unwrap(response).body).ok

Body == FromStr(Unwrap(response).body).value

\* The token counts that the usage block of r lacks.
MissingCounts(r) ==
    IF r.usage_metadata = None
    THEN {"prompt_token_count", "candidates_token_count", "total_token_count"}
    ELSE {f \in {"prompt_token_count", "candidates_token_count", "total_token_count"} :
             Unwrap(r.usage_metadata)[f] = None}

\* C16: the non-streaming decode of a response with an empty candidate list
\* fails with the missing-completion error and returns no completion,
\* whatever its usage block holds.
C16_EmptyCandidatesFail ==
    (Decoded /\ Body.candidates = <<>>) =>
        result = Err("missing_completion", None, None)

\* A response without candidates and with all three counts was decoded.
C16_Witness ==
    /\ Decoded
    /\ Body.candidates = <<>>
    /\ MissingCounts(Body) = {}
    /\ Unwrap(result.error).kind = "missing_completion"

\* C17: the non-streaming decode of a response with a candidate that lacks
\* exactly one token count fails with the error of that count; a completion
\* is returned only with a candidate and all three counts, and carries the
\* text and the counts of the response.
C17_MissingCountNamed ==
    Decoded =>
        /\ Body.candidates # <<>> =>
              /\ MissingCounts(Body) = {"prompt_token_count"} =>
                    result = Err("missing_prompt_tokens", None, None)
              /\ MissingCounts(Body) = {"candidates_token_count"} =>
                    result = Err("missing_completion_tokens", None, None)
              /\ MissingCounts(Body) = {"total_token_count"} =>
                    result = Err("missing_total_tokens", None, None)
        /\ result.value # None =>
              /\ Body.candidates # <<>>
              /\ MissingCounts(Body) = {}
              /\ Unwrap(result.value).completion = TextOf(Body)
              /\ Some(Unwrap(result.value).prompt_tokens)
                    = Unwrap(Body.usage_metadata).prompt_token_count
              /\ Some(Unwrap(result.value).completion_tokens)
                    = Unwrap(Body.usage_metadata).candidates_token_count
              /\ Some(Unwrap(result.value).total_tokens)
                    = Unwrap(Body.usage_metadata).total_token_count

\* A response with a text and without the total count alone was decoded.
C17_Witness ==
    /\ Decoded
    /\ Body.candidates # <<>>
    /\ MissingCounts(Body) = {"total_token_count"}
    /\ result.value = None

\* Nothing of the event stream of the call exists.
NoEventStream ==
    /\ pc[1] = "off"
    /\ pos[1] = 0
    /\ decoded[1] = <<>>
    /\ delivered[1] = <<>>
    /\ pending[1] = <<>>

\* C18: a completion or stream call whose response has a non-2xx status
\* fails with one error that carries the status code and the body text;
\* nothing is decoded, no event stream and no event is produced, and the
\* request was sent once.
C18_NonSuccessFails ==
    (Answered /\ Unwrap(response).status \notin 200..299) =>
        /\ result = Err("status", Some(Unwrap(response).status),
                        Some(Unwrap(response).body))
        /\ NoEventStream
        /\ sends = 1

\* C18 as amended: the error carries the status code and the body text when
\* the body can be read, and is the error of the read when it cannot; in
\* both cases the call returns no value, nothing is decoded, no event
\* stream and no event is produced, and the request was sent once.
C18_NonSuccessFailsOnce ==
    /\ sends <= 1
    /\ (Answered /\ Unwrap(response).status \notin 200..299) =>
          /\ Unwrap(response).readable =>
                result = Err("status", Some(Unwrap(response).status),
                             Some(Unwrap(response).body))
          /\ ~Unwrap(response).readable => result = Err("body_read", None, None)
          /\ NoEventStream
          /\ sends = 1

\* A stream call answered with status 300 and a body that holds a frame.
C18_Witness ==
    /\ Answered
    /\ method = "streamGenerateContent?alt=sse"
    /\ Unwrap(response).status = 300
    /\ Unwrap(response).body = DataFrame(1)
    /\ Unwrap(response).readable
    /\ result.value = None

\* C21: the content list of the compiled request has one block per message,
\* in message order; each block holds one text part, the message's content,
\* and the message's role, User for a message without a role; the system
\* instruction is present exactly when the request has a system text.
C21_ContentsOneToOne ==
    request_body # None =>
        LET req == Unwrap(request)
            body == Unwrap(request_body)
            messages == IF req.messages = None THEN <<>> ELSE Unwrap(req.messages)
        IN  /\ Len(body.contents) = Len(messages)
            /\ \A i \in 1..Len(messages) :
                  /\ Len(body.contents[i].parts) = 1
                  /\ body.contents[i].parts[1].text = messages[i].content
                  /\ messages[i].role # None =>
                        body.contents[i].role = Unwrap(messages[i].role)
                  /\ messages[i].role = None => body.contents[i].role = "user"
            /\ body.system_instruction # None <=> req.system # None

\* Two messages, the first without a role, and a system text were compiled.
C21_Witness ==
    /\ request_body # None
    /\ Unwrap(request).system # None
    /\ Unwrap(request).messages # None
    /\ Len(Unwrap(Unwrap(request).messages)) = 2
    /\ Unwrap(Unwrap(request).messages)[1].role = None
    /\ Unwrap(request_body).contents[2].role = "model"

\* C22: every request can be compiled for every model identifier and the
\* outcome is a wire request; compiling the same inputs again gives the same
\* wire request; an absent message list gives the empty content list and an
\* absent temperature the temperature 0.
C22_CompileTotal ==
    /\ (request # None /\ request_body = None) => ENABLED Compile
    /\ request_body # None =>
          LET req == Unwrap(request)
              body == Unwrap(request_body)
          IN  /\ body = create_request_body(model, req)
              /\ DOMAIN body
                    = {"system_instruction", "contents", "generation_config", "tools"}
              /\ req.messages = None => body.contents = <<>>
              /\ (\/ req.settings = None
                  \/ Unwrap(req.settings).temperature = None) =>
                    body.generation_config.temperature = Some(0)

\* A request with settings whose temperature is absent, and without
\* messages, was compiled.
C22_Witness ==
    /\ request_body # None
    /\ Unwrap(request).messages = None
    /\ Unwrap(request).settings # None
    /\ Unwrap(Unwrap(request).settings).temperature = None
    /\ Unwrap(Unwrap(request).settings).max_tokens # None

\* C24: the text of a completion is the text of the parts of the first
\* candidate, joined in array order; no part of a further candidate is in
\* it.
C24_FirstCandidateOnly ==
    (Decoded /\ result.value # None) =>
        LET parts == Body.candidates[1]
        IN  Unwrap(result.value).completion
                = Concat([i \in 1..Len(parts) |-> parts[i].text])

\* A response with two candidates, each with a text, was decoded to a
\* completion.
C24_Witness ==
    /\ Decoded
    /\ result.value # None
    /\ Len(Body.candidates) = 2
    /\ Body.candidates[2][1].text # <<>>
    /\ Len(Body.candidates[1]) = 2

\* The places of the parts that carry a function call.
CallPlaces(parts) == {i \in 1..Len(parts) : parts[i].function_call # None}

Max(S) == CHOOSE n \in S : \A m \in S : m <= n

\* C25: the function call of a completion is the one of the last part of
\* the first candidate that carries a function call, and is absent when no
\* part carries one; the text is that of the other parts.
C25_LastFunctionCallWins ==
    (Decoded /\ result.value # None) =>
        LET parts == Body.candidates[1]
            texts == SelectSeq(parts, LAMBDA part : part.function_call = None)
        IN  /\ CallPlaces(parts) = {} => Unwrap(result.value).function = None
            /\ CallPlaces(parts) # {} =>
                  Unwrap(result.value).function
                      = parts[Max(CallPlaces(parts))].function_call
            /\ Unwrap(result.value).completion
                  = Concat([i \in 1..Len(texts) |-> texts[i].text])

\* A response with a text part and two function-call parts of different
\* names was decoded to a completion.
C25_Witness ==
    /\ Decoded
    /\ result.value # None
    /\ Cardinality(CallPlaces(Body.candidates[1])) = 2
    /\ Unwrap(result.value).function = Some("get_weather")
    /\ Unwrap(result.value).completion = <<"a">>

\* C26: when build_request fails, the completion or stream call returns
\* that failure, nothing was sent and nothing of an event stream exists, and
\* the request was built once.
C26_AuthFailureReturned ==
    /\ auths <= 1
    /\ (callpc = "done" /\ Unwrap(response).kind = "auth_error") =>
          /\ result = Err("auth_error", None, None)
          /\ sends = 0
          /\ auths = 1
          /\ NoEventStream

\* A stream call whose build_request failed is over.
C26_Witness ==
    /\ callpc = "done"
    /\ method = "streamGenerateContent?alt=sse"
    /\ Unwrap(response).kind = "auth_error"
    /\ result.value = None

\* C38: a completion returned by generate_content carries as its prompt
\* count the prompt count of the response's usage block and as its
\* completion count the candidates count, neither taken from another field.
C38_TokenCountFidelity ==
    (callpc = "done" /\ result.value # None /\ Body.usage_metadata # None) =>
        /\ Unwrap(result.value).prompt_tokens
              = Unwrap(Body.usage_metadata).prompt_token_count
        /\ Unwrap(result.value).completion_tokens
              = Unwrap(Body.usage_metadata).candidates_token_count

\* The errors of the required fields, in the order of the fields.
FieldErrors ==
    <<"missing_completion", "missing_prompt_tokens",
      "missing_completion_tokens", "missing_total_tokens">>

\* The required fields that r lacks, by the place of their error.
MissingFields(r) ==
    (IF r.candidates = <<>> THEN {1} ELSE {})
        \cup (IF "prompt_token_count" \in MissingCounts(r) THEN {2} ELSE {})
        \cup (IF "candidates_token_count" \in MissingCounts(r) THEN {3} ELSE {})
        \cup (IF "total_token_count" \in MissingCounts(r) THEN {4} ELSE {})

\* C37: the non-streaming decode of a response that lacks required fields
\* fails with one error, that of the first field it lacks in the order
\* completion text, prompt tokens, completion tokens, total tokens.
C37_FirstMissingFieldNamed ==
    (Decoded /\ MissingFields(Body) # {}) =>
        LET first == CHOOSE i \in MissingFields(Body) :
                        \A j \in MissingFields(Body) : i <= j
        IN  result = Err(FieldErrors[first], None, None)

\* A response that lacks two fields, neither of them the completion text,
\* was decoded.
C37_Witness ==
    /\ Decoded
    /\ MissingFields(Body) = {3, 4}
    /\ result.value = None

----------------------------------------------------------------------------
(* Bearer token *)

\* C40: get_access_token looks the token up at the metadata server first;
\* when that succeeds it returns the server's token and the gcloud lookup is
\* not run; when it fails the gcloud lookup is run once and its result,
\* token or error, is what is returned, the server's error being dropped.
C40_ServerThenLocal ==
    /\ lookups \in {<<>>, <<"server">>, <<"server", "local">>}
    /\ token # None =>
          IF Unwrap(sources).server.error = None
          THEN /\ token = Some(Unwrap(sources).server)
               /\ lookups = <<"server">>
          ELSE /\ token = Some(Unwrap(sources).local)
               /\ lookups = <<"server", "local">>

\* Both lookups have failed and the error of the gcloud lookup was
\* returned.
C40_Witness ==
    /\ token # None
    /\ Unwrap(sources).server.error # None
    /\ Unwrap(sources).local.error # None
    /\ token = Some(Unwrap(sources).local)
    /\ lookups = <<"server", "local">>

----------------------------------------------------------------------------
(* Tool declarations *)

\* C23: with_parameter on a tool without parameters sets the parameters
\* derived from the argument type (where there are such); on a tool that
\* has parameters it returns the tool unchanged; so the parameters are
\* those of the first call.
C23_FirstWriteWins ==
    [][declared.value # None =>
          LET t == Unwrap(declared.value)
              T == applied'[Len(applied')]
          IN  /\ (t.parameters = None /\ derive_parameters(T).value # None) =>
                    declared' = Ok([t EXCEPT !.parameters = derive_parameters(T).value])
              /\ t.parameters # None => declared' = Ok(t)]_vars

\* C23 as amended: when the parameters can be derived from the argument
\* type, with_parameter sets them on a tool without parameters and returns
\* a tool that has parameters unchanged; when they cannot, it returns the
\* error of the derivation whether or not the tool has parameters; so after
\* any sequence of calls that all succeeded the tool has its name, its
\* description and the parameters of the first call.
C23_FirstWriteWinsDerivable ==
    [][declared.value # None =>
          LET t == Unwrap(declared.value)
              T == applied'[Len(applied')]
              parameters == derive_parameters(T)
          IN  /\ (parameters.value # None /\ t.parameters = None) =>
                    declared' = Ok([t EXCEPT !.parameters = parameters.value])
              /\ (parameters.value # None /\ t.parameters # None) =>
                    declared' = Ok(t)
              /\ parameters.value = None => declared' = parameters
              /\ (declared'.value # None /\ applied # <<>>) =>
                    Unwrap(declared'.value).parameters
                        = derive_parameters(applied[1]).value]_vars

\* A tool that got the parameters of TestArgs and was then given
\* WeatherArgs and TestArgs again.
C23_Witness ==
    /\ applied = <<"TestArgs", "WeatherArgs", "TestArgs">>
    /\ declared.value # None
    /\ Unwrap(declared.value).parameters = derive_parameters("TestArgs").value

====
